---------------------------- MODULE Spec2Model ----------------------------
(***************************************************************************)
(* A model of credits_updater.py: the comment extractor, the header        *)
(* normalizer, the similarity classifier, the bucket resolver and the      *)
(* aggregator (CreditsUpdater).                                            *)
(*                                                                         *)
(* Text is modelled as Python models it: a string is a sequence of         *)
(* characters (one-character strings here), a file is a sequence of lines, *)
(* each line ending with its newline.  Three abstractions are made: the    *)
(* phrase matched by FFMPEG_HEADER_START is written as the single          *)
(* character F; the external texts (LICENSE.md, the files of               *)
(* LICENSE_TEXTS) are named, not spelled out; the MD5 digest is a          *)
(* position-weighted sum of code points, enough to tell the headers of     *)
(* the modelled tree apart.                                                *)
(***************************************************************************)
EXTENDS Integers, Sequences, FiniteSets, TLC

(***************************************************************************)
(* Characters, ordering of strings (Python compares str by code point).    *)
(***************************************************************************)
Ord ==
  ("\n" :> 10) @@ (" " :> 32) @@ ("*" :> 42) @@ ("." :> 46) @@
  ("/" :> 47) @@ ("0" :> 48) @@ ("1" :> 49) @@ ("2" :> 50) @@
  ("3" :> 51) @@ ("5" :> 53) @@ ("6" :> 54) @@ ("8" :> 56) @@
  ("9" :> 57) @@ (";" :> 59) @@ ("@" :> 64) @@ ("A" :> 65) @@
  ("E" :> 69) @@ ("F" :> 70) @@ ("G" :> 71) @@ ("I" :> 73) @@
  ("J" :> 74) @@ ("L" :> 76) @@ ("M" :> 77) @@ ("O" :> 79) @@
  ("P" :> 80) @@ ("R" :> 82) @@ ("S" :> 83) @@ ("_" :> 95) @@
  ("a" :> 97) @@ ("b" :> 98) @@ ("c" :> 99) @@ ("d" :> 100) @@
  ("e" :> 101) @@ ("f" :> 102) @@ ("g" :> 103) @@ ("h" :> 104) @@
  ("i" :> 105) @@ ("j" :> 106) @@ ("l" :> 108) @@ ("m" :> 109) @@
  ("n" :> 110) @@ ("o" :> 111) @@ ("p" :> 112) @@ ("r" :> 114) @@
  ("s" :> 115) @@ ("t" :> 116) @@ ("u" :> 117) @@ ("v" :> 118) @@
  ("x" :> 120) @@ ("y" :> 121)

RECURSIVE StrLess(_, _)
StrLess(s, t) ==
  IF t = <<>> THEN FALSE
  ELSE IF s = <<>> THEN TRUE
  ELSE IF Ord[Head(s)] # Ord[Head(t)] THEN Ord[Head(s)] < Ord[Head(t)]
  ELSE StrLess(Tail(s), Tail(t))

RECURSIVE InsertSorted(_, _)
InsertSorted(x, s) ==
  IF s = <<>> THEN <<x>>
  ELSE IF StrLess(x, Head(s)) THEN <<x>> \o s
  ELSE <<Head(s)>> \o InsertSorted(x, Tail(s))

\* The list as it is, in the order the files were processed.
sorted_Unsorted(s) == s

\* sorted(list of str): stable, ascending.
RECURSIVE sorted(_)
sorted(s) ==
  IF s = <<>> THEN <<>>
  ELSE InsertSorted(s[Len(s)], sorted(SubSeq(s, 1, Len(s) - 1)))

\* sorted(keys of a dict): the keys are distinct, so the order of iteration
\* of the dict does not show in the result.
RECURSIVE sorted_keys(_)
sorted_keys(S) ==
  IF S = {} THEN <<>>
  ELSE LET x == CHOOSE y \in S : TRUE
       IN  InsertSorted(x, sorted_keys(S \ {x}))

\* Python's None and a value that is not None.
None == [is_none |-> TRUE]
Just(v) == [is_none |-> FALSE, val |-> v]
\* Python truthiness of "None or a list".
Truthy(r) == (~r.is_none) /\ r.val # <<>>

StartsWith(s, p) == Len(s) >= Len(p) /\ SubSeq(s, 1, Len(p)) = p
EndsWith(s, p) == Len(s) >= Len(p) /\ SubSeq(s, Len(s) - Len(p) + 1, Len(s)) = p

(***************************************************************************)
(* The regular expressions, by what search and sub do with them.           *)
(***************************************************************************)
RECURSIVE DropLeading(_, _)
DropLeading(c, s) ==
  IF s # <<>> /\ Head(s) = c THEN DropLeading(c, Tail(s)) ELSE s

\* C_COMMENT_BLOCK_START.search(line): a slash followed by a star, anywhere.
C_COMMENT_BLOCK_START(line) ==
  \E i \in 1..(Len(line) - 1) : line[i] = "/" /\ line[i + 1] = "*"

\* C_COMMENT_BLOCK_END.search(line): a star followed by a slash, anywhere.
C_COMMENT_BLOCK_END(line) ==
  \E i \in 1..(Len(line) - 1) : line[i] = "*" /\ line[i + 1] = "/"

\* ASM_COMMENT_PRE.search(line): the line begins with ; or @.
ASM_COMMENT_PRE(line) == line # <<>> /\ Head(line) \in {";", "@"}

\* ASM_NOT_COMMENT.search(line): the line has a first character, not ; or @.
ASM_NOT_COMMENT(line) == line # <<>> /\ Head(line) \notin {";", "@"}

\* FFMPEG_HEADER_START.search(line): the phrase occurs in the line.
FFMPEG_HEADER_START(line) == \E i \in 1..Len(line) : line[i] = "F"

\* re.sub(C_COMMENT_BLOCK_START, '', line): every slash-stars run removed.
RECURSIVE SubCommentStart(_)
SubCommentStart(s) ==
  IF s = <<>> THEN <<>>
  ELSE IF Head(s) = "/" /\ Len(s) >= 2 /\ s[2] = "*"
       THEN SubCommentStart(DropLeading("*", Tail(s)))
       ELSE <<Head(s)>> \o SubCommentStart(Tail(s))

\* re.sub(C_COMMENT_BLOCK_END, '', line): every star-slash removed.
RECURSIVE SubCommentEnd(_)
SubCommentEnd(s) ==
  IF s = <<>> THEN <<>>
  ELSE IF Head(s) = "*" /\ Len(s) >= 2 /\ s[2] = "/"
       THEN SubCommentEnd(SubSeq(s, 3, Len(s)))
       ELSE <<Head(s)>> \o SubCommentEnd(Tail(s))

\* re.sub(C_COMMENT_BLOCK_MID, '', line): leading spaces, a star, spaces.
SubCommentMid(s) ==
  LET t == DropLeading(" ", s)
  IN  IF t # <<>> /\ Head(t) = "*" THEN DropLeading(" ", Tail(t)) ELSE s

\* re.sub(ASM_COMMENT_PRE, '', line): a leading ; with its stars, or a
\* leading @.
SubAsmPre(s) ==
  IF s # <<>> /\ Head(s) = ";" THEN DropLeading("*", Tail(s))
  ELSE IF s # <<>> /\ Head(s) = "@" THEN Tail(s)
  ELSE s

\* str.strip(): leading and trailing whitespace removed.
Whitespace == {" ", "\n"}
RECURSIVE LStrip(_)
LStrip(s) == IF s # <<>> /\ Head(s) \in Whitespace THEN LStrip(Tail(s)) ELSE s
RECURSIVE RStrip(_)
RStrip(s) ==
  IF s # <<>> /\ s[Len(s)] \in Whitespace
  THEN RStrip(SubSeq(s, 1, Len(s) - 1)) ELSE s
\* str.lstrip(): the whitespace at the end kept.
strip_LeadingOnly(s) == LStrip(s)

strip(s) == RStrip(LStrip(s))

\* ''.join(lines).  (The lines lo..hi are joined by halves.)
RECURSIVE JoinRange(_, _, _)
JoinRange(lines, lo, hi) ==
  IF lo > hi THEN <<>>
  ELSE IF lo = hi THEN lines[lo]
  ELSE LET mid == (lo + hi) \div 2
       IN  JoinRange(lines, lo, mid) \o JoinRange(lines, mid + 1, hi)
ConcatLines(lines) == JoinRange(lines, 1, Len(lines))


(***************************************************************************)
(* ExtractFirstCommentBlock and StripCommentChars.  open_file is the       *)
(* sequence of lines of the file at file_path; readline past the last      *)
(* line returns the empty string.                                          *)
(***************************************************************************)
SCAN_LINES == 100

readline(open_file, n) == IF n <= Len(open_file) THEN open_file[n] ELSE <<>>

comment_start_re(is_asm, line) ==
  IF is_asm THEN ASM_COMMENT_PRE(line) ELSE C_COMMENT_BLOCK_START(line)

comment_end_re(is_asm, line) ==
  IF is_asm THEN ASM_NOT_COMMENT(line) ELSE C_COMMENT_BLOCK_END(line)

\* is_asm: the extension .asm, or .S with a first line that begins as a
\* line comment.
IsAsm(file_path, open_file) ==
  \/ EndsWith(file_path, <<".", "a", "s", "m">>)
  \/ /\ EndsWith(file_path, <<".", "S">>)
     /\ ASM_COMMENT_PRE(readline(open_file, 1))

\* One turn of the loop "for _ in range(0, 100)", reading line n.  st holds
\* found_comment_start, found_comment_end and lines; once the loop has
\* broken (found_comment_end) no further turn runs.
ScanStep(open_file, is_asm, st, n) ==
  IF st.found_comment_end THEN st
  ELSE LET line == readline(open_file, n)
           found_comment_start ==
             st.found_comment_start \/ comment_start_re(is_asm, line)
       IN  IF ~found_comment_start THEN st
           ELSE [found_comment_start |-> TRUE,
                 found_comment_end |-> comment_end_re(is_asm, line),
                 lines |-> Append(st.lines, line)]

\* The turns lo..hi of the loop, in order.
RECURSIVE ScanRange(_, _, _, _, _)
ScanRange(open_file, is_asm, st, lo, hi) ==
  IF lo > hi THEN st
  ELSE IF lo = hi THEN ScanStep(open_file, is_asm, st, lo)
  ELSE LET mid  == (lo + hi) \div 2
           left == ScanRange(open_file, is_asm, st, lo, mid)
       IN  IF left.found_comment_end THEN left
           ELSE ScanRange(open_file, is_asm, left, mid + 1, hi)

ScanLoop(open_file, is_asm) ==
  ScanRange(open_file, is_asm,
            [found_comment_start |-> FALSE, found_comment_end |-> FALSE,
             lines |-> <<>>],
            1, SCAN_LINES)

\* StripCommentChars changes its argument in place; the value is the list
\* after the call.  For a C block: the first line loses its slash-stars,
\* then the last line its star-slashes, then every line but the first its
\* leading star.
StripCommentChars(comment_lines, is_asm) ==
  IF is_asm
  THEN [i \in 1..Len(comment_lines) |-> SubAsmPre(comment_lines[i])]
  ELSE LET n  == Len(comment_lines)
           s1 == [comment_lines EXCEPT ![1] = SubCommentStart(@)]
           s2 == [s1 EXCEPT ![n] = SubCommentEnd(@)]
       IN  [i \in 1..n |-> IF i = 1 THEN s2[i] ELSE SubCommentMid(s2[i])]

ExtractFirstCommentBlock(file_path, open_file) ==
  LET is_asm == IsAsm(file_path, open_file)
      scan   == ScanLoop(open_file, is_asm)
  IN  IF ~(scan.found_comment_start /\ scan.found_comment_end)
      THEN None
      ELSE Just(StripCommentChars(scan.lines, is_asm))

(***************************************************************************)
(* NormalizeCommentLines.  ret is what the call returns, comment_lines     *)
(* the caller's list after the call (the function works on a copy).        *)
(***************************************************************************)
MAX_HEADER_OFFSET == 20

\* The loop that counts the lines before the first marker line: the turns
\* lo..hi, st holding line_index and whether the loop has broken.
RECURSIVE HeaderSearch(_, _, _, _)
HeaderSearch(comment_lines, st, lo, hi) ==
  IF lo > hi THEN st
  ELSE IF lo = hi
  THEN IF st.broken THEN st
       ELSE IF FFMPEG_HEADER_START(comment_lines[lo])
            THEN [line_index |-> st.line_index, broken |-> TRUE]
            ELSE [line_index |-> st.line_index + 1, broken |-> FALSE]
  ELSE LET mid  == (lo + hi) \div 2
           left == HeaderSearch(comment_lines, st, lo, mid)
       IN  IF left.broken THEN left
           ELSE HeaderSearch(comment_lines, left, mid + 1, hi)

FirstHeaderIndex(comment_lines) ==
  HeaderSearch(comment_lines, [line_index |-> 0, broken |-> FALSE],
               1, Len(comment_lines)).line_index

\* NormalizeCommentLines with the offset test off by one: a marker line at
\* offset 20 is too far already.
NormalizeCommentLines_OffByOne(comment_lines) ==
  LET line_index == FirstHeaderIndex(comment_lines)
  IN  IF line_index = Len(comment_lines)
      THEN [ret |-> None, comment_lines |-> comment_lines]
      ELSE IF line_index >= MAX_HEADER_OFFSET
      THEN [ret |-> None, comment_lines |-> comment_lines]
      ELSE [ret |-> Just(SubSeq(comment_lines, line_index + 1,
                                Len(comment_lines))),
            comment_lines |-> comment_lines]

NormalizeCommentLines(comment_lines) ==
  LET line_index == FirstHeaderIndex(comment_lines)
  IN  IF line_index = Len(comment_lines)
      THEN [ret |-> None, comment_lines |-> comment_lines]
      ELSE IF line_index > MAX_HEADER_OFFSET
      THEN [ret |-> None, comment_lines |-> comment_lines]
      ELSE [ret |-> Just(SubSeq(comment_lines, line_index + 1,
                                Len(comment_lines))),
            comment_lines |-> comment_lines]

(***************************************************************************)
(* difflib.SequenceMatcher(None, a, b).ratio(): twice the number of        *)
(* matched characters over the sum of the lengths, the matched characters  *)
(* being those of the longest matching block and, recursively, of the      *)
(* pieces to its left and to its right.  Indices are Python's: from 0,     *)
(* the upper one excluded.  (b is shorter than the 200 characters from     *)
(* which difflib sets popular characters aside.)                           *)
(***************************************************************************)
RECURSIVE CommonLen(_, _, _, _, _, _)
CommonLen(a, b, i, j, ahi, bhi) ==
  IF i < ahi /\ j < bhi /\ a[i + 1] = b[j + 1]
  THEN 1 + CommonLen(a, b, i + 1, j + 1, ahi, bhi)
  ELSE 0

\* find_longest_match: of the longest blocks the one that starts earliest
\* in a, and of those the one that starts earliest in b.
find_longest_match(a, b, alo, ahi, blo, bhi) ==
  LET cands == (alo..(ahi - 1)) \X (blo..(bhi - 1))
      size(c) == CommonLen(a, b, c[1], c[2], ahi, bhi)
      best == CHOOSE c \in cands :
                \A d \in cands :
                  \/ size(d) < size(c)
                  \/ /\ size(d) = size(c)
                     /\ \/ c[1] < d[1]
                        \/ c[1] = d[1] /\ c[2] <= d[2]
  IN  [i |-> best[1], j |-> best[2], k |-> size(best)]

RECURSIVE MatchedChars(_, _, _, _, _, _)
MatchedChars(a, b, alo, ahi, blo, bhi) ==
  IF alo >= ahi \/ blo >= bhi THEN 0
  ELSE LET m == find_longest_match(a, b, alo, ahi, blo, bhi)
       IN  IF m.k = 0 THEN 0
           ELSE m.k + MatchedChars(a, b, alo, m.i, blo, m.j)
                    + MatchedChars(a, b, m.i + m.k, ahi, m.j + m.k, bhi)

\* ratio() as the fraction num / den (1.0 when both strings are empty).
ratio(a, b) ==
  IF Len(a) + Len(b) = 0 THEN [num |-> 1, den |-> 1]
  ELSE [num |-> 2 * MatchedChars(a, b, 0, Len(a), 0, Len(b)),
        den |-> Len(a) + Len(b)]

\* LGPL_MATCH_THRESHOLD = .9, as the fraction 9 / 10.
LGPL_MATCH_THRESHOLD_NUM == 9
LGPL_MATCH_THRESHOLD_DEN == 10

\* sim_ratio > LGPL_MATCH_THRESHOLD
AtLeastThreshold_Strict(sim_ratio) ==
  sim_ratio.num * LGPL_MATCH_THRESHOLD_DEN
    > LGPL_MATCH_THRESHOLD_NUM * sim_ratio.den

\* sim_ratio >= LGPL_MATCH_THRESHOLD
AtLeastThreshold(sim_ratio) ==
  sim_ratio.num * LGPL_MATCH_THRESHOLD_DEN
    >= LGPL_MATCH_THRESHOLD_NUM * sim_ratio.den

\* hashlib.md5 of the text, hexdigest.  MD5 itself is not computed: a
\* digest here is a position-weighted sum of the character codes, which
\* like MD5 is a function of the text alone and maps many texts to one
\* digest.
RECURSIVE WeightedSum(_, _, _)
WeightedSum(s, lo, hi) ==
  IF lo > hi THEN 0
  ELSE IF lo = hi THEN (lo * Ord[s[lo]]) % 65521
  ELSE LET mid == (lo + hi) \div 2
       IN  (WeightedSum(s, lo, mid) + WeightedSum(s, mid + 1, hi)) % 65521
md5_hexdigest(s) == WeightedSum(s, 1, Len(s))

(***************************************************************************)
(* The licenses, the reference text and the table of known files.          *)
(***************************************************************************)
LGPL == <<"L", "G", "P", "L">>
MIPS == <<"M", "I", "P", "S">>
JPEG == <<"J", "P", "E", "G">>
OGG_MA_MR_2005 ==
  <<"O", "G", "G", "_", "M", "A", "_", "M", "R", "_", "2", "0", "0", "5">>
_Licenses == <<LGPL, MIPS, JPEG, OGG_MA_MR_2005>>

\* The reference header: the marker line and the license wording.
FFMPEG_LGPL_REF ==
  <<"\n", "F", ".", "\n", "l", "g", "p", "l", " ", "v", "2", ".", "1", " ",
    "o", "n", "l", "y", "\n">>

\* The directory given to the constructor, as an absolute path.
source_dir == <<"/", "f">>

\* The files of the tree, by their paths relative to source_dir.
log_c ==
  <<"l", "i", "b", "a", "v", "u", "t", "i", "l", "/", "l", "o", "g", ".",
    "c">>
mem_c ==
  <<"l", "i", "b", "a", "v", "u", "t", "i", "l", "/", "m", "e", "m", ".",
    "c">>
md5_c ==
  <<"l", "i", "b", "a", "v", "u", "t", "i", "l", "/", "m", "d", "5", ".",
    "c">>
codec_desc_c ==
  <<"l", "i", "b", "a", "v", "c", "o", "d", "e", "c", "/", "c", "o", "d",
    "e", "c", "_", "d", "e", "s", "c", ".", "c">>
fixed_dsp_c ==
  <<"l", "i", "b", "a", "v", "u", "t", "i", "l", "/", "f", "i", "x", "e",
    "d", "_", "d", "s", "p", ".", "c">>
fft_table_h ==
  <<"l", "i", "b", "a", "v", "c", "o", "d", "e", "c", "/", "f", "f", "t",
    "_", "t", "a", "b", "l", "e", ".", "h">>
fixed_dsp_h ==
  <<"l", "i", "b", "a", "v", "u", "t", "i", "l", "/", "f", "i", "x", "e",
    "d", "_", "d", "s", "p", ".", "h">>
jrevdct_c ==
  <<"l", "i", "b", "a", "v", "c", "o", "d", "e", "c", "/", "j", "r", "e",
    "v", "d", "c", "t", ".", "c">>
oggdec_c ==
  <<"l", "i", "b", "a", "v", "f", "o", "r", "m", "a", "t", "/", "o", "g",
    "g", "d", "e", "c", ".", "c">>
oggdec_h ==
  <<"l", "i", "b", "a", "v", "f", "o", "r", "m", "a", "t", "/", "o", "g",
    "g", "d", "e", "c", ".", "h">>
cpuid_asm ==
  <<"l", "i", "b", "a", "v", "u", "t", "i", "l", "/", "x", "8", "6", "/",
    "c", "p", "u", "i", "d", ".", "a", "s", "m">>
fft_S ==
  <<"l", "i", "b", "a", "v", "c", "o", "d", "e", "c", "/", "a", "r", "m",
    "/", "f", "f", "t", ".", "S">>
avconfig_h ==
  <<"l", "i", "b", "a", "v", "u", "t", "i", "l", "/", "a", "v", "c", "o",
    "n", "f", "i", "g", ".", "h">>
xiph_c ==
  <<"l", "i", "b", "a", "v", "c", "o", "d", "e", "c", "/", "x", "i", "p",
    "h", ".", "c">>
tree_c ==
  <<"l", "i", "b", "a", "v", "u", "t", "i", "l", "/", "t", "r", "e", "e",
    ".", "c">>

Repeat(line, n) == [i \in 1..n |-> line]

\* What open(path) reads: the lines of each file of the tree.
Tree ==
     (log_c :>
       <<<<"/", "*", "\n">>,
         <<" ", "*", " ", "c", " ", "2", "0", "0", "3", " ", "m", "\n">>,
         <<" ", "*", "\n">>,
         <<" ", "*", " ", "F", ".", "\n">>,
         <<" ", "*", " ", "l", "g", "p", "l", " ", "v", "2", ".", "1", " ",
           "o", "n", "l", "y", "\n">>,
         <<" ", "*", "/", "\n">>,
         <<"\n">>,
         <<"i", "n", "t", " ", "x", ";", "\n">>>>)
  @@ (mem_c :>
       <<<<"/", "*", "\n">>,
         <<" ", "*", " ", "F", ".", "\n">>,
         <<" ", "*", " ", "l", "g", "p", "l", " ", "v", "2", ".", "1", " ",
           "o", "n", "l", "y", "\n">>,
         <<" ", " ", "*", "/", "\n">>,
         <<"i", "n", "t", " ", "x", ";", "\n">>>>)
  @@ (md5_c :>
       <<<<"/", "*", "\n">>,
         <<" ", "*", " ", "F", ".", "\n">>,
         <<" ", "*", " ", "l", "g", "p", "l", " ", "v", "2", ".", "1", " ",
           "o", "n", "l", "y", "\n">>,
         <<" ", "*", " ", "x", "\n">>,
         <<" ", "*", "/", "\n">>,
         <<"i", "n", "t", " ", "x", ";", "\n">>>>)
  @@ (codec_desc_c :>
       <<<<"/", "*", "\n">>,
         <<" ", "*", " ", "F", ".", "\n">>,
         <<" ", "*", " ", "l", "g", "p", "l", " ", "v", "2", ".", "1", " ",
           "o", "n", "l", "y", "\n">>,
         <<" ", "*", " ", "d", "e", "s", "c", " ", "a", "\n">>,
         <<" ", "*", "/", "\n">>,
         <<"i", "n", "t", " ", "x", ";", "\n">>>>)
  @@ (fixed_dsp_c :>
       <<<<"/", "*", "\n">>,
         <<" ", "*", " ", "c", " ", "2", "0", "1", "2", " ", "m", "i", "p",
           "s", "\n">>,
         <<" ", "*", " ", "b", "s", "d", " ", "3", "\n">>,
         <<" ", "*", "/", "\n">>,
         <<"i", "n", "t", " ", "x", ";", "\n">>>>)
  @@ (fft_table_h :>
       <<<<"/", "*", "\n">>,
         <<" ", "*", " ", "c", " ", "2", "0", "1", "2", " ", "m", "i", "p",
           "s", "\n">>,
         <<" ", "*", " ", "b", "s", "d", " ", "3", "\n">>,
         <<" ", "*", "/", "\n">>,
         <<"i", "n", "t", " ", "x", ";", "\n">>>>)
  @@ (fixed_dsp_h :>
       <<<<"/", "*", "\n">>,
         <<" ", "*", " ", "c", " ", "2", "0", "0", "3", " ", "m", "\n">>,
         <<" ", "*", "\n">>,
         <<" ", "*", " ", "F", ".", "\n">>,
         <<" ", "*", " ", "l", "g", "p", "l", " ", "v", "2", ".", "1", " ",
           "o", "n", "l", "y", "\n">>,
         <<" ", "*", "/", "\n">>,
         <<"\n">>,
         <<"i", "n", "t", " ", "x", ";", "\n">>>>)
  @@ (jrevdct_c :>
       <<<<"/", "*", " ", "c", " ", "1", "9", "9", "1", " ", "j", "p", "e",
           "g", " ", "*", "/", "\n">>,
         <<"i", "n", "t", " ", "x", ";", "\n">>>>)
  @@ (oggdec_c :>
       <<<<"/", "*", "*", "\n">>,
         <<" ", " ", " ", " ", "c", " ", "2", "0", "0", "6", " ", "o", "g",
           "g", " ", "m", "i", "t", "\n">>,
         <<" ", "*", "*", "/", "\n">>,
         <<"i", "n", "t", " ", "x", ";", "\n">>>>)
  @@ (oggdec_h :>
       <<<<"/", "*", "*", "\n">>,
         <<" ", " ", " ", " ", "c", " ", "2", "0", "0", "5", " ", "o", "g",
           "g", " ", "m", "i", "t", "\n">>,
         <<" ", "*", "*", "/", "\n">>,
         <<"i", "n", "t", " ", "x", ";", "\n">>>>)
  @@ (cpuid_asm :>
       <<<<";", "*", "*", "*", "*", "*", "\n">>,
         <<";", "*", " ", "c", " ", "2", "0", "0", "5", " ", "x", "\n">>,
         <<";", "*", " ", "F", ".", "\n">>,
         <<";", "*", " ", "l", "g", "p", "l", " ", "v", "2", ".", "1", " ",
           "o", "n", "l", "y", "\n">>,
         <<";", "*", "*", "*", "*", "*", "\n">>,
         <<"\n">>,
         <<"s", "e", "c", "t", "i", "o", "n", " ", ".", "t", "e", "x", "t",
           "\n">>>>)
  @@ (fft_S :>
       <<<<"@", " ", "c", " ", "2", "0", "0", "9", " ", "a", "r", "m", "\n">>,
         <<"@", " ", "m", "i", "t", "\n">>,
         <<".", "t", "e", "x", "t", "\n">>>>)
  @@ (avconfig_h :>
       <<<<"i", "n", "t", " ", "x", ";", "\n">>,
         <<"i", "n", "t", " ", "y", ";", "\n">>>>)
  @@ (xiph_c :>
       <<<<"/", "*", "\n">>>>
       \o Repeat(<<" ", "*", " ", "c", "\n">>, 20)
       \o <<<<" ", "*", " ", "F", ".", "\n">>,
         <<" ", "*", " ", "l", "g", "p", "l", " ", "v", "2", ".", "1", " ",
           "o", "n", "l", "y", "\n">>,
         <<" ", "*", "/", "\n">>>>)
  @@ (tree_c :>
       <<<<"/", "*", "\n">>,
         <<" ", "*", " ", "F", ".", "\n">>,
         <<" ", "*", " ", "l", "g", "p", "l", " ", "v", "2", ".", "1", " ",
           "o", "n", "l", "y", "\n">>>>)

\* Rows of the table: path, license, digest of the comment header recorded
\* when the row was written.
KNOWN_FILE_BUCKETS ==
  << <<codec_desc_c, LGPL, 27943>>,
     <<fixed_dsp_c, MIPS, 13616>>,
     <<fft_table_h, MIPS, 13616>>,
     <<fixed_dsp_h, MIPS, 13616>>,
     <<jrevdct_c, JPEG, 6725>>,
     <<oggdec_c, OGG_MA_MR_2005, 14854>>,
     <<oggdec_h, OGG_MA_MR_2005, 14854>> >>

(***************************************************************************)
(* Paths.                                                                  *)
(***************************************************************************)
isabs(path) == path # <<>> /\ Head(path) = "/"
join(dir, path) == dir \o <<"/">> \o path
\* abspath of a path that is absolute and has no . or .. component.
abspath(path) == path
\* relpath of a descendant of start.
relpath(path, start) == SubSeq(path, Len(start) + 2, Len(path))

\* open(file_path): the lines of the file at that absolute path.
open(file_path) == Tree[relpath(file_path, abspath(source_dir))]

(***************************************************************************)
(* CreditsUpdater.  The state of one run: the object's fields, the credits *)
(* file it writes, whether exit() was called and with what, and the calls  *)
(* made on the object so far.                                              *)
(***************************************************************************)
VARIABLES
  known_file_map,      \* relative path -> FileInfo(license, license_digest)
  difficult_files,     \* list of paths
  known_credits,       \* defaultdict(list): license -> list of paths
  generated_credits,   \* dict: relative path -> license text
  credits_file,        \* what WriteCredits wrote to output_file, or NoFile
  exit_status,         \* Running, or the record of the exit() call
  calls,               \* the calls made so far, in order
  input,               \* argument of the function under check (unit runs)
  returned             \* what it returned, or NotCalled (unit runs)

vars == <<known_file_map, difficult_files, known_credits, generated_credits,
          credits_file, exit_status, calls, input, returned>>

\* The number of calls the caller makes on the object.
MaxCalls == 3

Running == [exited |-> FALSE]
NoFile == <<>>
NotCalled == [called |-> FALSE]

FileInfo(license, license_digest) ==
  [license |-> license, license_digest |-> license_digest]

\* __init__: the table as a map; of two rows with one path the later wins.
KnownFileMap ==
  LET rows == KNOWN_FILE_BUCKETS
      last(path) == CHOOSE i \in 1..Len(rows) :
                      /\ rows[i][1] = path
                      /\ \A j \in (i + 1)..Len(rows) : rows[j][1] # path
  IN  [path \in {rows[i][1] : i \in 1..Len(rows)} |->
         FileInfo(rows[last(path)][2], rows[last(path)][3])]

Init ==
  /\ known_file_map = KnownFileMap
  /\ difficult_files = <<>>
  /\ known_credits = <<>>
  /\ generated_credits = <<>>
  /\ credits_file = NoFile
  /\ exit_status = Running
  /\ calls = <<>>
  /\ input = <<>>
  /\ returned = NotCalled

\* d[key].append(value) on a defaultdict(list).
DictAppend(d, key, value) ==
  IF key \in DOMAIN d
  THEN [d EXCEPT ![key] = Append(@, value)]
  ELSE (key :> <<value>>) @@ d

\* d[key] = value on a dict.
DictSet(d, key, value) ==
  [k \in DOMAIN d \cup {key} |-> IF k = key THEN value ELSE d[k]]

\* exit(message): the run ends; what the message names is kept.
ExitHeaderChanged(rel_file_path, old_digest, new_digest) ==
  [exited |-> TRUE, message |-> "header has changed",
   file_path |-> rel_file_path, old_digest |-> old_digest,
   new_digest |-> new_digest]

ExitDifficultFiles(files) ==
  [exited |-> TRUE, message |-> "Update script to work for these",
   printed |-> files]

\* HandleNonLGPLFile without the else: a file of the table is stored in its
\* bucket and printed verbatim as well.
HandleNonLGPLFile_BucketAndVerbatim(comment_lines, file_path) ==
  LET rel_file_path == relpath(file_path, abspath(source_dir))
      hexdigest == md5_hexdigest(ConcatLines(comment_lines))
      verbatim == DictSet(generated_credits, rel_file_path,
                          strip(ConcatLines(comment_lines)))
  IN  IF rel_file_path \in DOMAIN known_file_map
      THEN IF hexdigest # known_file_map[rel_file_path].license_digest
           THEN /\ exit_status' =
                     ExitHeaderChanged(
                       rel_file_path,
                       known_file_map[rel_file_path].license_digest,
                       hexdigest)
                /\ UNCHANGED <<known_credits, generated_credits>>
           ELSE /\ known_credits' =
                     DictAppend(known_credits,
                                known_file_map[rel_file_path].license,
                                rel_file_path)
                /\ generated_credits' = verbatim
                /\ UNCHANGED exit_status
      ELSE /\ generated_credits' = verbatim
           /\ UNCHANGED <<known_credits, exit_status>>

\* HandleNonLGPLFile without the digest comparison: a file of the table is
\* stored in its bucket whatever its header.
HandleNonLGPLFile_NoDigestCheck(comment_lines, file_path) ==
  LET rel_file_path == relpath(file_path, abspath(source_dir))
  IN  IF rel_file_path \in DOMAIN known_file_map
      THEN /\ known_credits' =
                DictAppend(known_credits,
                           known_file_map[rel_file_path].license,
                           rel_file_path)
           /\ UNCHANGED <<generated_credits, exit_status>>
      ELSE /\ generated_credits' =
                DictSet(generated_credits, rel_file_path,
                        strip(ConcatLines(comment_lines)))
           /\ UNCHANGED <<known_credits, exit_status>>

\* HandleNonLGPLFile(comment_lines, file_path): the fields after the call.
HandleNonLGPLFile(comment_lines, file_path) ==
  LET rel_file_path == relpath(file_path, abspath(source_dir))
  IN  IF rel_file_path \in DOMAIN known_file_map
      THEN LET hexdigest == md5_hexdigest(ConcatLines(comment_lines))
               file_license_info == known_file_map[rel_file_path]
           IN  IF hexdigest # file_license_info.license_digest
               THEN /\ exit_status' =
                         ExitHeaderChanged(rel_file_path,
                                           file_license_info.license_digest,
                                           hexdigest)
                    /\ UNCHANGED <<known_credits, generated_credits>>
               ELSE /\ known_credits' =
                         DictAppend(known_credits,
                                    file_license_info.license, rel_file_path)
                    /\ UNCHANGED <<generated_credits, exit_status>>
      ELSE /\ generated_credits' =
                DictSet(generated_credits, rel_file_path,
                        strip(ConcatLines(comment_lines)))
           /\ UNCHANGED <<known_credits, exit_status>>

\* What ProcessFile computes for the file at absolute path file_path before
\* it touches the fields: the block as extracted, the caller's comment_lines
\* after the call of NormalizeCommentLines, the normalized lines, the
\* similarity ratio.
Header(file_path) ==
  LET comment_lines == ExtractFirstCommentBlock(file_path, open(file_path))
  IN  IF ~Truthy(comment_lines)
      THEN [extracted |-> comment_lines]
      ELSE LET n == NormalizeCommentLines(comment_lines.val)
           IN  [extracted |-> comment_lines,
                comment_lines |-> n.comment_lines,
                normalized_lines |-> n.ret,
                sim_ratio |->
                  IF Truthy(n.ret)
                  THEN ratio(ConcatLines(n.ret.val), FFMPEG_LGPL_REF)
                  ELSE [num |-> 0, den |-> 1]]

\* Header of every file of the tree, computed once: the files do not change
\* during a run.
RECURSIVE HeaderTable(_)
HeaderTable(file_paths) ==
  IF file_paths = {} THEN <<>>
  ELSE LET file_path == CHOOSE p \in file_paths : TRUE
       IN  (file_path :> Header(file_path))
             @@ HeaderTable(file_paths \ {file_path})
Headers == HeaderTable({join(source_dir, path) : path \in DOMAIN Tree})

\* ProcessFile(file_path), file_path relative to source_dir or absolute.
ProcessFile(path) ==
  /\ ~exit_status.exited
  /\ Len(calls) < MaxCalls
  /\ LET file_path == IF ~isabs(path)
                      THEN abspath(join(source_dir, path))
                      ELSE path
         h == Headers[file_path]
     IN  /\ calls' = Append(calls, [op |-> "ProcessFile",
                                    file_path |-> file_path])
         /\ IF ~Truthy(h.extracted)
            THEN /\ difficult_files' = Append(difficult_files, file_path)
                 /\ UNCHANGED <<known_credits, generated_credits,
                                exit_status>>
            ELSE /\ UNCHANGED difficult_files
                 /\ IF Truthy(h.normalized_lines)
                    THEN IF AtLeastThreshold(h.sim_ratio)
                         THEN /\ known_credits' =
                                   DictAppend(known_credits, LGPL, file_path)
                              /\ UNCHANGED <<generated_credits, exit_status>>
                         ELSE HandleNonLGPLFile(h.comment_lines, file_path)
                    ELSE HandleNonLGPLFile(h.comment_lines, file_path)
  /\ UNCHANGED <<known_file_map, credits_file, input, returned>>

\* The pieces WriteCredits writes, in the order of the writelines calls.
LICENSE_SEPARATOR == [piece |-> "LICENSE_SEPARATOR"]
Overview == [piece |-> "LICENSE.md"]
VerbatimEntry(filename, file_license) ==
  [piece |-> "verbatim", filename |-> filename, text |-> file_license]
FileList(file_list) == [piece |-> "file list", files |-> file_list]
LicenseText(license) == [piece |-> "LICENSE_TEXTS", license |-> license]

RECURSIVE VerbatimSections(_)
VerbatimSections(filenames) ==
  IF filenames = <<>> THEN <<>>
  ELSE <<LICENSE_SEPARATOR,
         VerbatimEntry(Head(filenames), generated_credits[Head(filenames)])>>
       \o VerbatimSections(Tail(filenames))

\* The bucket sections without the test that leaves LGPL out.
RECURSIVE KnownSections_WithReference(_)
KnownSections_WithReference(licenses) ==
  IF licenses = <<>> THEN <<>>
  ELSE <<LICENSE_SEPARATOR,
         FileList(sorted(known_credits[Head(licenses)])),
         LicenseText(Head(licenses))>>
       \o KnownSections_WithReference(Tail(licenses))

RECURSIVE KnownSections(_)
KnownSections(licenses) ==
  IF licenses = <<>> THEN <<>>
  ELSE LET known_license == Head(licenses)
       IN  (IF known_license = LGPL
            THEN <<>>
            ELSE <<LICENSE_SEPARATOR,
                   FileList(sorted(known_credits[known_license])),
                   LicenseText(known_license)>>)
           \o KnownSections(Tail(licenses))

Document ==
  <<Overview>>
  \o VerbatimSections(sorted_keys(DOMAIN generated_credits))
  \o KnownSections(sorted_keys(DOMAIN known_credits))
  \o <<LICENSE_SEPARATOR, LicenseText(LGPL)>>

\* WriteCredits without the test of difficult_files.
WriteCredits_IgnoringDifficultFiles ==
  /\ ~exit_status.exited
  /\ Len(calls) < MaxCalls
  /\ calls' = Append(calls, [op |-> "WriteCredits"])
  /\ credits_file' = Document
  /\ UNCHANGED <<known_file_map, difficult_files, known_credits,
                 generated_credits, exit_status, input, returned>>

WriteCredits ==
  /\ ~exit_status.exited
  /\ Len(calls) < MaxCalls
  /\ calls' = Append(calls, [op |-> "WriteCredits"])
  /\ IF difficult_files # <<>>
     THEN /\ exit_status' = ExitDifficultFiles(difficult_files)
          /\ UNCHANGED credits_file
     ELSE /\ credits_file' = Document
          /\ UNCHANGED exit_status
  /\ UNCHANGED <<known_file_map, difficult_files, known_credits,
                 generated_credits, input, returned>>

\* The paths a caller passes: each file of the tree, relative or absolute.
Paths ==
  DOMAIN Tree \cup {join(source_dir, path) : path \in DOMAIN Tree}

Next ==
  \/ \E path \in Paths : ProcessFile(path)
  \/ WriteCredits

Spec == Init /\ [][Next]_vars

(***************************************************************************)
(* Unit runs of the two text functions: one call on one input, the input   *)
(* drawn from a family of comment blocks (NormalizeCommentLines) or of     *)
(* files (ExtractFirstCommentBlock).                                       *)
(***************************************************************************)
\* Lines before the marker line, and lines after it, of the blocks tried.
MaxLead == 22
MaxTail == 2

CopyrightLine == <<"c", " ", "2", "0", "0", "3", "\n">>
MarkerLine == <<"F", ".", "\n">>
WordingLine == <<"l", "g", "p", "l", "\n">>

\* The sequences of at most n lines, each the marker line or a wording line.
RECURSIVE Tails(_)
Tails(n) ==
  IF n = 0 THEN {<<>>}
  ELSE LET shorter == Tails(n - 1)
       IN  shorter \cup {<<l>> \o t : l \in {MarkerLine, WordingLine},
                                      t \in {u \in shorter : Len(u) = n - 1}}

\* Blocks: copyright lines, then nothing more, or wording lines alone, or a
\* marker line and a tail.
NormalizeInputs ==
  {Repeat(CopyrightLine, lead) \o rest :
     lead \in 0..MaxLead,
     rest \in {<<>>, <<WordingLine>>} \cup {<<MarkerLine>> \o t : t \in Tails(MaxTail)}}

UnitInit(inputs) ==
  /\ known_file_map = KnownFileMap
  /\ difficult_files = <<>>
  /\ known_credits = <<>>
  /\ generated_credits = <<>>
  /\ credits_file = NoFile
  /\ exit_status = Running
  /\ calls = <<>>
  /\ input \in inputs
  /\ returned = NotCalled

UnitFrame ==
  UNCHANGED <<known_file_map, difficult_files, known_credits,
              generated_credits, credits_file, exit_status, calls, input>>

InitNormalize == UnitInit(NormalizeInputs)

CallNormalize ==
  /\ ~returned.called
  /\ returned' = [called |-> TRUE, value |-> NormalizeCommentLines(input)]
  /\ UnitFrame

NextNormalize == CallNormalize

SpecNormalize == InitNormalize /\ [][NextNormalize]_vars

\* Lines before the comment, and lines between its first and its last line,
\* of the files tried.
MaxBefore == 100
MaxBody == 2

CodeLine == <<"i", "n", "t", " ", "x", ";", "\n">>
AsmCodeLine == <<"m", "o", "v", "\n">>

\* A comment in one of the styles: its first line, a line of its body, the
\* line that ends it.
CommentStyles ==
  { [first |-> <<"/", "*", "\n">>,
     body  |-> <<" ", "*", " ", "c", "\n">>,
     last  |-> <<" ", "*", "/", "\n">>],
    [first |-> <<"/", "*", "*", " ", "c", "\n">>,
     body  |-> <<"c", "\n">>,
     last  |-> <<"c", " ", "*", "*", "/", "\n">>],
    [first |-> <<";", "*", "*", "\n">>,
     body  |-> <<";", "*", " ", "c", "\n">>,
     last  |-> AsmCodeLine],
    [first |-> <<"@", " ", "c", "\n">>,
     body  |-> <<"@", " ", "F", ".", "\n">>,
     last  |-> <<"\n">>] }

ExtractPaths ==
  { <<"/", "f", "/", "t", ".", "c">>,
    <<"/", "f", "/", "t", ".", "a", "s", "m">>,
    <<"/", "f", "/", "t", ".", "S">> }

\* Files: code lines, then a comment that is ended and followed by code, or
\* that runs to the end of the file; and files of one line that both opens
\* and closes a comment.
ExtractFiles ==
  {Repeat(CodeLine, before) \o <<style.first>>
     \o Repeat(style.body, body)
     \o (IF ended THEN <<style.last, CodeLine>> ELSE <<>>) :
     before \in 0..MaxBefore, style \in CommentStyles, body \in 0..MaxBody,
     ended \in BOOLEAN}
  \cup {Repeat(CodeLine, before) \o <<<<"/", "*", " ", "c", " ", "*", "/", "\n">>>> :
          before \in 0..MaxBefore}

ExtractInputs ==
  {[file_path |-> file_path, open_file |-> open_file] :
     file_path \in ExtractPaths, open_file \in ExtractFiles}

InitExtract == UnitInit(ExtractInputs)

CallExtract ==
  /\ ~returned.called
  /\ returned' = [called |-> TRUE,
                  value |-> ExtractFirstCommentBlock(input.file_path,
                                                     input.open_file)]
  /\ UnitFrame

NextExtract == CallExtract

SpecExtract == InitExtract /\ [][NextExtract]_vars

(***************************************************************************)
(* Vocabulary of the properties.                                           *)
(***************************************************************************)
Occurs(x, list) == \E i \in 1..Len(list) : list[i] = x
Count(x, list) == Cardinality({i \in 1..Len(list) : list[i] = x})

Rel(file_path) == relpath(file_path, abspath(source_dir))

\* The calls of ProcessFile, and those of them that returned: a call that
\* called exit() is the last call of the run.
ProcessCalls == {i \in 1..Len(calls) : calls[i].op = "ProcessFile"}
HaltedBy(message) == exit_status.exited /\ exit_status.message = message
ReturnedCalls ==
  {i \in ProcessCalls :
     ~(i = Len(calls) /\ HaltedBy("header has changed"))}

\* Where a file is recorded.
InBucket(path, license) ==
  license \in DOMAIN known_credits /\ Occurs(path, known_credits[license])
RecordedKnown(file_path) ==
  \E license \in DOMAIN known_credits :
    InBucket(file_path, license) \/ InBucket(Rel(file_path), license)
RecordedVerbatim(file_path) == Rel(file_path) \in DOMAIN generated_credits
RecordedDifficult(file_path) == Occurs(file_path, difficult_files)

\* What the file at file_path holds.
HasBlock(file_path) == ~Headers[file_path].extracted.is_none
RawBlock(file_path) == Headers[file_path].extracted.val
\* Computed once for the files of the tree.
FilesWithBlock == {file_path \in DOMAIN Headers : HasBlock(file_path)}
RawTexts ==
  [file_path \in FilesWithBlock |-> ConcatLines(RawBlock(file_path))]
RawDigests ==
  [file_path \in FilesWithBlock |-> md5_hexdigest(RawTexts[file_path])]
RawText(file_path) == RawTexts[file_path]
InTable(file_path) == Rel(file_path) \in DOMAIN known_file_map
DigestDiffers(file_path) ==
  RawDigests[file_path] # known_file_map[Rel(file_path)].license_digest
\* The files the classifier takes for the reference license: normalization
\* succeeds and the ratio against the reference is at least nine tenths.
FilesCloseToReference ==
  {file_path \in FilesWithBlock :
     LET n == NormalizeCommentLines(RawBlock(file_path))
     IN  /\ ~n.ret.is_none
         /\ LET r == ratio(ConcatLines(n.ret.val), FFMPEG_LGPL_REF)
            IN  10 * r.num >= 9 * r.den}
CloseToReference(file_path) == file_path \in FilesCloseToReference

\* The call i ended the run inside ProcessFile, its file recorded nowhere.
HaltedInside(i) ==
  LET file_path == calls[i].file_path
  IN  /\ i = Len(calls)
      /\ exit_status =
           ExitHeaderChanged(Rel(file_path),
                             known_file_map[Rel(file_path)].license_digest,
                             RawDigests[file_path])
      /\ ~RecordedKnown(file_path)
      /\ ~RecordedVerbatim(file_path)
      /\ ~RecordedDifficult(file_path)
      /\ ~ENABLED Next

(***************************************************************************)
(* C1: every file passed to ProcessFile whose relative path is a key of the *)
(* table and whose extracted block has a digest other than the recorded    *)
(* one halts the run inside that call: the file is in none of the three    *)
(* collections, no later call is made, no document is written afterwards.  *)
(***************************************************************************)
C1_HaltsOnEveryChangedHeader ==
  \A i \in ProcessCalls :
    LET file_path == calls[i].file_path
    IN  (InTable(file_path) /\ HasBlock(file_path)
           /\ DigestDiffers(file_path))
          => HaltedInside(i)

KnownSize(licenses) ==
  LET size(k) == IF licenses[k] \in DOMAIN known_credits
                 THEN Len(known_credits[licenses[k]]) ELSE 0
  IN  size(1) + size(2) + size(3) + size(4)

TotalSize ==
  KnownSize(_Licenses) + Cardinality(DOMAIN generated_credits)
    + Len(difficult_files)

DistinctFiles ==
  \A i, j \in ReturnedCalls :
    i # j => calls[i].file_path # calls[j].file_path

(***************************************************************************)
(* C2: every ProcessFile call that returned recorded its file in exactly   *)
(* one of the three collections (a bucket list of known_credits, an entry  *)
(* of generated_credits, difficult_files); and after n returned calls on   *)
(* distinct files the sizes of the three collections sum to n.             *)
(***************************************************************************)
C2_ExactlyOneResultPerFile ==
  /\ DOMAIN known_credits \subseteq {_Licenses[k] : k \in 1..Len(_Licenses)}
  /\ \A i \in ReturnedCalls :
       LET file_path == calls[i].file_path
           known     == IF RecordedKnown(file_path) THEN 1 ELSE 0
           verbatim  == IF RecordedVerbatim(file_path) THEN 1 ELSE 0
           difficult == IF RecordedDifficult(file_path) THEN 1 ELSE 0
       IN  known + verbatim + difficult = 1
  /\ DistinctFiles => TotalSize = Cardinality(ReturnedCalls)

\* Three returned calls on distinct files, one file in each collection.
C2_Witness ==
  /\ Cardinality(ReturnedCalls) = 3
  /\ DistinctFiles
  /\ DOMAIN known_credits # {}
  /\ DOMAIN generated_credits # {}
  /\ difficult_files # <<>>

\* The files of the ProcessFile calls that found no block, in call order.
NoBlockFiles ==
  LET noblock(call) ==
        call.op = "ProcessFile" /\ ~HasBlock(call.file_path)
      picked == SelectSeq(calls, noblock)
  IN  [k \in 1..Len(picked) |-> picked[k].file_path]

\* No ProcessFile call follows a WriteCredits call.
ScanThenRender ==
  \A i, j \in 1..Len(calls) :
    (i < j /\ calls[i].op = "WriteCredits") => calls[j].op = "WriteCredits"

(***************************************************************************)
(* C3: a file with no block does not halt the scan: ProcessFile appends    *)
(* it to difficult_files and returns, and the calls after it record their  *)
(* files as they would otherwise.  Once difficult_files is non-empty a     *)
(* WriteCredits call halts the run and leaves the credits file as it was;  *)
(* a run that scans and then renders, and recorded an unparseable file,    *)
(* has no credits document.                                                *)
(***************************************************************************)
C3_DifficultFilesBlockRenderOnly ==
  /\ [](/\ difficult_files = NoBlockFiles
        /\ \A i \in ProcessCalls :
             ~HasBlock(calls[i].file_path) => i \in ReturnedCalls
        /\ \A i \in ReturnedCalls :
             HasBlock(calls[i].file_path)
               => (RecordedKnown(calls[i].file_path)
                     \/ RecordedVerbatim(calls[i].file_path))
        /\ \A k \in 1..Len(calls) :
             (calls[k].op = "WriteCredits"
                /\ \E i \in ProcessCalls :
                     i < k /\ ~HasBlock(calls[i].file_path))
               => (k = Len(calls)
                     /\ exit_status = ExitDifficultFiles(difficult_files))
        /\ (ScanThenRender /\ difficult_files # <<>>)
             => credits_file = NoFile)
  /\ [][difficult_files # <<>> => credits_file' = credits_file]_vars

\* An unparseable file, then a file that was classified, then the render
\* that halted.
C3_Witness ==
  /\ Len(calls) = 3
  /\ calls[1].op = "ProcessFile" /\ ~HasBlock(calls[1].file_path)
  /\ calls[2].op = "ProcessFile" /\ RecordedKnown(calls[2].file_path)
  /\ calls[3].op = "WriteCredits"
  /\ HaltedBy("Update script to work for these")
  /\ credits_file = NoFile

(***************************************************************************)
(* The outcome the processing rules give a file, from the file alone.      *)
(***************************************************************************)
Deferred(file_path) == HasBlock(file_path) /\ ~CloseToReference(file_path)
TableLicense(file_path) == known_file_map[Rel(file_path)].license
\* The file goes to the bucket the table names.
BucketOutcome(file_path, license) ==
  /\ Deferred(file_path) /\ InTable(file_path) /\ ~DigestDiffers(file_path)
  /\ TableLicense(file_path) = license
\* The file is printed verbatim.
VerbatimOutcome(file_path) == Deferred(file_path) /\ ~InTable(file_path)

\* The text s with the whitespace at its two ends removed, said without
\* the operators of the model: the only slice of s that neither starts nor
\* ends with whitespace and has only whitespace to its left and right.
IsStripped(t, s) ==
  /\ t = <<>> \/ (t[1] \notin Whitespace /\ t[Len(t)] \notin Whitespace)
  /\ \E a \in 0..Len(s) :
       /\ a + Len(t) <= Len(s)
       /\ t = SubSeq(s, a + 1, a + Len(t))
       /\ \A k \in (1..a) \cup ((a + Len(t) + 1)..Len(s)) :
            s[k] \in Whitespace

\* The document on disk is the one the last call wrote.
JustWritten ==
  /\ calls # <<>>
  /\ calls[Len(calls)].op = "WriteCredits"
  /\ ~exit_status.exited

NonReferenceBuckets == DOMAIN known_credits \ {LGPL}

(***************************************************************************)
(* C4: in every document WriteCredits produced the text of the reference   *)
(* (LGPL) license occurs exactly once, as the last piece, after a          *)
(* separator, whether or not a file was classified LGPL; every file list   *)
(* is followed by the text of another license, and the document just       *)
(* written has one file list per bucket other than LGPL, so that the LGPL  *)
(* bucket has no section among the sorted ones.                            *)
(***************************************************************************)
C4_ReferenceLicenseLastAndOnce ==
  credits_file # NoFile =>
    LET n == Len(credits_file)
        file_lists == {i \in 1..n : credits_file[i].piece = "file list"}
    IN  /\ n >= 3
        /\ credits_file[n] = LicenseText(LGPL)
        /\ credits_file[n - 1] = LICENSE_SEPARATOR
        /\ Count(LicenseText(LGPL), credits_file) = 1
        /\ \A i \in file_lists :
             /\ credits_file[i + 1].piece = "LICENSE_TEXTS"
             /\ credits_file[i + 1].license # LGPL
        /\ JustWritten =>
             /\ Cardinality(file_lists) = Cardinality(NonReferenceBuckets)
             /\ LGPL \in DOMAIN known_credits =>
                  \A i \in file_lists :
                    \A k \in 1..Len(known_credits[LGPL]) :
                      ~Occurs(known_credits[LGPL][k], credits_file[i].files)

\* A document written when files were recorded under LGPL and under MIPS,
\* which sorts after LGPL.
C4_Witness ==
  /\ JustWritten
  /\ {LGPL, MIPS} \subseteq DOMAIN known_credits
  /\ Len(credits_file) = 6

\* A document written when no file was recorded under LGPL.
C4_WitnessNoReferenceFile ==
  /\ JustWritten
  /\ LGPL \notin DOMAIN known_credits
  /\ DOMAIN known_credits # {}

ProcessedFiles == {calls[i].file_path : i \in ReturnedCalls}
TimesProcessed(rel_file_path, license) ==
  Cardinality({i \in ReturnedCalls :
                 /\ Rel(calls[i].file_path) = rel_file_path
                 /\ BucketOutcome(calls[i].file_path, license)})

(***************************************************************************)
(* C5: the document WriteCredits writes is, piece by piece: the overview;  *)
(* for each verbatim file, in strictly ascending order of path, the        *)
(* separator and the entry with the path and the license text of the       *)
(* file; for each bucket other than LGPL that received a file, in strictly *)
(* ascending order of name, the separator, the paths of the bucket in      *)
(* ascending order and the license text of the bucket.  Which paths and    *)
(* texts these are depends on which files were processed and how often,    *)
(* not on the order of the calls.                                          *)
(***************************************************************************)
C5_DocumentOrderedWhateverTheCallOrder ==
  JustWritten =>
    LET V == Cardinality({f \in ProcessedFiles : VerbatimOutcome(f)})
        B == Cardinality({license \in {MIPS, JPEG, OGG_MA_MR_2005} :
                            \E f \in ProcessedFiles :
                              BucketOutcome(f, license)})
        entry(k) == credits_file[2 * k + 1]
        section(j) == 2 * V + 3 * j - 1
    IN  /\ Len(credits_file) = 1 + 2 * V + 3 * B + 2
        /\ credits_file[1] = Overview
        /\ \A k \in 1..V :
             /\ credits_file[2 * k] = LICENSE_SEPARATOR
             /\ entry(k).piece = "verbatim"
             /\ \E f \in ProcessedFiles :
                  /\ VerbatimOutcome(f)
                  /\ entry(k).filename = Rel(f)
                  /\ IsStripped(entry(k).text, RawText(f))
             /\ k < V => StrLess(entry(k).filename, entry(k + 1).filename)
        /\ \A j \in 1..B :
             LET files   == credits_file[section(j) + 1].files
                 license == credits_file[section(j) + 2].license
             IN  /\ credits_file[section(j)] = LICENSE_SEPARATOR
                 /\ credits_file[section(j) + 1].piece = "file list"
                 /\ credits_file[section(j) + 2].piece = "LICENSE_TEXTS"
                 /\ license # LGPL
                 /\ files # <<>>
                 /\ \A k \in 1..Len(files) :
                      Count(files[k], files)
                        = TimesProcessed(files[k], license)
                 /\ \A k \in 1..(Len(files) - 1) :
                      ~StrLess(files[k + 1], files[k])
                 /\ j < B =>
                      StrLess(license, credits_file[section(j + 1) + 2].license)

\* Two verbatim files processed in descending order of path, then written.
C5_Witness ==
  /\ JustWritten
  /\ Len(calls) = 3
  /\ calls[1].op = "ProcessFile" /\ calls[2].op = "ProcessFile"
  /\ VerbatimOutcome(calls[1].file_path)
  /\ VerbatimOutcome(calls[2].file_path)
  /\ StrLess(Rel(calls[2].file_path), Rel(calls[1].file_path))

(***************************************************************************)
(* C6, as stated: a file the Bucket Resolver handles and whose relative    *)
(* path is not in the table gets a verbatim credit under its relative      *)
(* path whose text is exactly the concatenation of its raw comment lines,  *)
(* no character added, removed or altered, and is stored in no bucket.     *)
(***************************************************************************)
C6_VerbatimTextIsRawText ==
  \A i \in ReturnedCalls :
    LET file_path == calls[i].file_path
    IN  VerbatimOutcome(file_path) =>
          /\ Rel(file_path) \in DOMAIN generated_credits
          /\ generated_credits[Rel(file_path)] = RawText(file_path)
          /\ ~RecordedKnown(file_path)

(***************************************************************************)
(* C6, amended: a file the Bucket Resolver handles and whose relative path *)
(* is not in the table gets a verbatim credit under its relative path      *)
(* whose text is the concatenation of its raw (not normalized) comment     *)
(* lines with the whitespace at its start and at its end removed and       *)
(* nothing else changed, and is stored in no bucket.                       *)
(***************************************************************************)
C6_VerbatimTextIsStrippedRawText ==
  \A i \in ReturnedCalls :
    LET file_path == calls[i].file_path
    IN  VerbatimOutcome(file_path) =>
          /\ Rel(file_path) \in DOMAIN generated_credits
          /\ IsStripped(generated_credits[Rel(file_path)],
                        RawText(file_path))
          /\ ~RecordedKnown(file_path)
          /\ ~RecordedDifficult(file_path)

\* A verbatim credit shorter than the raw text at both ends, of a header
\* whose normalized lines are not its raw lines.
C6_Witness ==
  \E i \in ReturnedCalls :
    LET file_path == calls[i].file_path
        raw  == RawText(file_path)
        text == generated_credits[Rel(file_path)]
    IN  /\ VerbatimOutcome(file_path)
        /\ raw[1] \in Whitespace /\ raw[Len(raw)] \in Whitespace
        /\ Len(text) <= Len(raw) - 2
        /\ text # <<>>
        /\ ~Headers[file_path].normalized_lines.is_none
        /\ Headers[file_path].normalized_lines.val # RawBlock(file_path)

(***************************************************************************)
(* C7: a file the Bucket Resolver handles, whose relative path is in the   *)
(* table and whose raw comment digest is the recorded one, has its         *)
(* relative path appended, once per call, to the list of the bucket the    *)
(* table gives it, and is in no other bucket and not in the verbatim       *)
(* credits.  And every path listed under a bucket other than LGPL is a     *)
(* key of the table, mapped to that bucket, of a file that was processed   *)
(* and whose digest is the recorded one.                                   *)
(***************************************************************************)
C7_BucketIsTheTableBucket ==
  /\ \A i \in ReturnedCalls :
       LET file_path == calls[i].file_path
           license   == TableLicense(file_path)
       IN  BucketOutcome(file_path, license) =>
             /\ license \in DOMAIN known_credits
             /\ Count(Rel(file_path), known_credits[license])
                  = TimesProcessed(Rel(file_path), license)
             /\ \A other \in DOMAIN known_credits \ {license} :
                  /\ ~InBucket(Rel(file_path), other)
                  /\ ~InBucket(file_path, other)
             /\ ~InBucket(file_path, license)
             /\ ~RecordedVerbatim(file_path)
             /\ ~RecordedDifficult(file_path)
  /\ \A license \in NonReferenceBuckets :
       \A k \in 1..Len(known_credits[license]) :
         LET rel_file_path == known_credits[license][k]
             file_path == join(source_dir, rel_file_path)
         IN  /\ rel_file_path \in DOMAIN known_file_map
             /\ known_file_map[rel_file_path].license = license
             /\ file_path \in ProcessedFiles
             /\ RawDigests[file_path]
                  = known_file_map[rel_file_path].license_digest

\* Two files of the table stored under MIPS and one stored under LGPL by
\* the resolver.
C7_Witness ==
  /\ MIPS \in DOMAIN known_credits /\ Len(known_credits[MIPS]) = 2
  /\ InBucket(codec_desc_c, LGPL)

(***************************************************************************)
(* C8: a file whose comment block was extracted has its absolute path in   *)
(* the LGPL list, once per call, if and only if normalization succeeded    *)
(* and the similarity ratio of the normalized text against the reference   *)
(* is at least 0.9, exactly 0.9 included.  Every other such file got what  *)
(* the Bucket Resolver does with its raw block: the run halted on a        *)
(* digest of the raw text other than the recorded one, or the relative     *)
(* path is in the bucket of the table, or the raw text is its verbatim     *)
(* credit; and the classifier did not record it under LGPL.                *)
(***************************************************************************)
C8_ReferenceIffRatioAtLeastThreshold ==
  \A i \in ProcessCalls :
    LET file_path == calls[i].file_path
        times == Cardinality({j \in ProcessCalls :
                                calls[j].file_path = file_path})
    IN  HasBlock(file_path) =>
          /\ InBucket(file_path, LGPL) <=> CloseToReference(file_path)
          /\ CloseToReference(file_path) =>
               /\ Count(file_path, known_credits[LGPL]) = times
               /\ ~RecordedVerbatim(file_path)
               /\ \A license \in DOMAIN known_credits :
                    ~InBucket(Rel(file_path), license)
          /\ ~CloseToReference(file_path) =>
               IF ~InTable(file_path)
               THEN /\ Rel(file_path) \in DOMAIN generated_credits
                    /\ IsStripped(generated_credits[Rel(file_path)],
                                  RawText(file_path))
               ELSE IF DigestDiffers(file_path)
               THEN HaltedInside(i)
               ELSE InBucket(Rel(file_path), TableLicense(file_path))

\* A header at ratio exactly 0.9 stored under LGPL, and a header that
\* normalizes but stays below 0.9 printed verbatim from its raw lines.
C8_Witness ==
  /\ InBucket(join(source_dir, mem_c), LGPL)
  /\ LET r == Headers[join(source_dir, mem_c)].sim_ratio
     IN  10 * r.num = 9 * r.den
  /\ \E i \in ReturnedCalls :
       LET h == Headers[calls[i].file_path]
       IN  /\ VerbatimOutcome(calls[i].file_path)
           /\ ~h.normalized_lines.is_none
           /\ 10 * h.sim_ratio.num < 9 * h.sim_ratio.den
           /\ h.normalized_lines.val # h.extracted.val

MarkerOffsets(comment_lines) ==
  {k \in 0..(Len(comment_lines) - 1) :
     FFMPEG_HEADER_START(comment_lines[k + 1])}
FirstMarkerOffset(comment_lines) ==
  CHOOSE k \in MarkerOffsets(comment_lines) :
    \A other \in MarkerOffsets(comment_lines) : k <= other

(***************************************************************************)
(* C9: NormalizeCommentLines succeeds exactly when the block has a line    *)
(* matching the marker and the first such line is at offset 20 at most     *)
(* (offsets from 0): offset 20 succeeds, offset 21 fails, no marker line   *)
(* fails.  On success the result is the block from the first marker line   *)
(* through the last line, unchanged and in order; the block passed in is   *)
(* left as it was.                                                         *)
(***************************************************************************)
C9_NormalizeSucceedsUpToOffsetTwenty ==
  returned.called =>
    LET succeeded == ~returned.value.ret.is_none
        result    == returned.value.ret.val
    IN  /\ succeeded <=> /\ MarkerOffsets(input) # {}
                         /\ FirstMarkerOffset(input) <= 20
        /\ MarkerOffsets(input) # {} =>
             /\ FirstMarkerOffset(input) = 20 => succeeded
             /\ FirstMarkerOffset(input) = 21 => ~succeeded
        /\ succeeded =>
             /\ Len(result) = Len(input) - FirstMarkerOffset(input)
             /\ \A k \in 1..Len(result) :
                  result[k] = input[FirstMarkerOffset(input) + k]
        /\ returned.value.comment_lines = input

\* A block whose first marker line is at offset 20, with a second marker
\* line after it, normalized.
C9_Witness ==
  /\ returned.called
  /\ ~returned.value.ret.is_none
  /\ MarkerOffsets(input) = {20, 22}
  /\ Len(returned.value.ret.val) = 3

\* A block whose only marker line is at offset 21, refused.
C9_WitnessTooFar ==
  /\ returned.called
  /\ returned.value.ret.is_none
  /\ MarkerOffsets(input) = {21}

\* The lines the function may read.
Window(open_file) ==
  SubSeq(open_file, 1, IF Len(open_file) < 100 THEN Len(open_file) ELSE 100)
Starts(is_asm, lines) ==
  {n \in 1..Len(lines) : comment_start_re(is_asm, lines[n])}
Ends(is_asm, lines, from) ==
  {n \in from..Len(lines) : comment_end_re(is_asm, lines[n])}
Least(S) == CHOOSE n \in S : \A other \in S : n <= other

\* The function reads no line after the window.
C10_ReadsTheWindowOnly ==
  returned.called =>
    returned.value
      = ExtractFirstCommentBlock(input.file_path, Window(input.open_file))

\* A block is returned exactly when the window holds a start and, there or
\* later, an end; and the block is not empty.
C10_BlockIffStartThenEnd ==
  returned.called =>
    LET is_asm == IsAsm(input.file_path, input.open_file)
        lines  == Window(input.open_file)
    IN  /\ ~returned.value.is_none
             <=> \E s \in Starts(is_asm, lines) : Ends(is_asm, lines, s) # {}
        /\ ~returned.value.is_none => returned.value.val # <<>>

\* A C block is the lines from the first start through the end, the comment
\* characters stripped.
C10_CBlockIsStartThroughEnd ==
  (returned.called /\ ~returned.value.is_none
     /\ ~IsAsm(input.file_path, input.open_file)) =>
    LET lines == Window(input.open_file)
        s == Least(Starts(FALSE, lines))
        e == Least(Ends(FALSE, lines, s))
    IN  returned.value.val = StripCommentChars(SubSeq(lines, s, e), FALSE)

\* A line-oriented block is the comment lines before the line that ends it,
\* the comment characters stripped.
C10_AsmBlockIsTheCommentLines ==
  (returned.called /\ ~returned.value.is_none
     /\ IsAsm(input.file_path, input.open_file)) =>
    LET lines == Window(input.open_file)
        s == Least(Starts(TRUE, lines))
        e == Least(Ends(TRUE, lines, s))
    IN  returned.value.val = StripCommentChars(SubSeq(lines, s, e - 1), TRUE)

(***************************************************************************)
(* C10: ExtractFirstCommentBlock reads at most the first 100 lines of the  *)
(* file.  It returns a block if and only if one of these lines matches     *)
(* the start pattern and that line or a later one of them matches the end  *)
(* pattern.  The block is then not empty and is made, in order, for a C    *)
(* block of the lines from the first line matching the start pattern       *)
(* through the line matching the end pattern, and for a line-oriented      *)
(* (assembly) block of the comment lines accumulated until a line that is  *)
(* not a comment ends the block.  A block whose start is found and whose   *)
(* end is not reached within the 100 lines gives no block.                 *)
(***************************************************************************)
C10_ExtractedBlockIsTheComment ==
  /\ C10_ReadsTheWindowOnly
  /\ C10_BlockIffStartThenEnd
  /\ C10_CBlockIsStartThroughEnd
  /\ C10_AsmBlockIsTheCommentLines

=============================================================================
